---- MODULE Spec2Model ----
(***************************************************************************)
(* A model of the log-triage pipeline of pskalick/log-analyzer: the        *)
(* analyzer (log_analyzer_1h.go: filter by time window, chunk, one         *)
(* completion request per chunk, checkpoint after every chunk, final       *)
(* report) and the enhancer (second program: one completion request over   *)
(* a previously written report, fallback recommendations section).         *)
(*                                                                         *)
(* Texts of the analyzer are sequences of pieces [s, n]: s is the literal  *)
(* text of the piece (or the name of a text the environment supplied) and  *)
(* n its length in bytes.  Texts of the enhancer are sequences of strings, *)
(* a model reply being spelled one character per element.                  *)
(***************************************************************************)
EXTENDS Integers, Sequences, FiniteSets, TLC

\* ---------------------------------------------------------------- constants

\* log_analyzer_1h.go:20
maxTokensPerChunk == 1500
\* log_analyzer_1h.go:21
maxCharsPerSummary == 20000
\* log_analyzer_1h.go:65, the initial linesPerChunk
initialLinesPerChunk == 30
\* log_analyzer_1h.go:51-52, the width of the timestamp prefix
timestampWidth == 25
\* log_analyzer_1h.go:26, characters per estimated token
charsPerToken == 4
\* the significand width of a float64 (log_analyzer_1h.go:92-93)
MantissaBits == 53

\* ------------------------------------------------------------------- bounds

\* the longest log file of the long-file family
MaxLines == 33
\* the longest log file built from arbitrary line kinds
MaxSmallFile == 2
\* clock ticks per hour (the resolution of the model's clock)
TicksPerHour == 3
\* the clock reading of time.Now() at the start of the run
ClockNow == 10
\* the most lines of a summary file the enhancer reads
MaxSummaryLines == 3

\* ------------------------------------------------------- float64 arithmetic
\* A positive float64 is [m, x]: m the 53 significand bits, most significant
\* first, x the exponent of the last bit; its value is Int(m) * 2^x.
\* Operations are exact on bit strings and then rounded to nearest, ties to
\* even, as IEEE 754 binary64 arithmetic does.

\* the n-bit big-endian representation of v, 0 <= v < 2^n, n <= 30
BitsOf(v, n) == [i \in 1..n |-> (v \div 2^(n - i)) % 2]

\* the value of bits lo..hi of a bit string, fewer than 31 bits
RECURSIVE BitsValue(_, _, _)
BitsValue(bits, lo, hi) ==
    IF lo > hi THEN 0
    ELSE IF lo = hi THEN bits[lo]
    ELSE BitsValue(bits, lo, (lo + hi) \div 2) * 2^(hi - ((lo + hi) \div 2))
         + BitsValue(bits, ((lo + hi) \div 2) + 1, hi)

\* base-256 digits as a bit string
DigitsToBits(ds) ==
    [i \in 1..(8 * Len(ds)) |->
        (ds[((i - 1) \div 8) + 1] \div 2^(7 - ((i - 1) % 8))) % 2]

\* a bit string of 8k bits as k base-256 digits
BitsToDigits(bits) ==
    [k \in 1..(Len(bits) \div 8) |-> BitsValue(bits, 8 * k - 7, 8 * k)]

\* the first k base-256 digits of the fraction r/b (0 <= r < b < 2^23), and
\* the remainder left after them
RECURSIVE FracDigits(_, _, _)
FracDigits(r, b, k) ==
    IF k = 0 THEN <<>>
    ELSE <<(r * 256) \div b>> \o FracDigits((r * 256) % b, b, k - 1)

RECURSIVE FracRem(_, _, _)
FracRem(r, b, k) == IF k = 0 THEN r ELSE FracRem((r * 256) % b, b, k - 1)

\* bits (a nonzero bit string of at least 53 significant bits, its last bit
\* of exponent x, sticky: a nonzero amount below the last bit was dropped)
\* rounded to a float64
Round53(bits, x, sticky) ==
    LET lead  == CHOOSE i \in 1..Len(bits) :
                    bits[i] = 1 /\ \A j \in 1..(i - 1) : bits[j] = 0
        n     == Len(bits) - lead + 1
        sig   == SubSeq(bits, lead, lead + MantissaBits - 1)
        guard == n > MantissaBits /\ bits[lead + MantissaBits] = 1
        low   == sticky \/ \E j \in (lead + MantissaBits + 1)..Len(bits) : bits[j] = 1
        up    == guard /\ (low \/ sig[MantissaBits] = 1)
        xs    == x + (n - MantissaBits)
    IN  IF ~up THEN [m |-> sig, x |-> xs]
        ELSE IF \A j \in 1..MantissaBits : sig[j] = 1
        THEN [m |-> [j \in 1..MantissaBits |-> IF j = 1 THEN 1 ELSE 0], x |-> xs + 1]
        ELSE LET z == CHOOSE j \in 1..MantissaBits :
                         sig[j] = 0 /\ \A k \in (j + 1)..MantissaBits : sig[k] = 1
             IN  [m |-> [j \in 1..MantissaBits |->
                            IF j < z THEN sig[j] ELSE IF j = z THEN 1 ELSE 0],
                  x |-> xs]

\* float64(a) / float64(b) for integers 0 < a < 2^30 * b, 0 < b < 2^23
FloatDiv(a, b) ==
    Round53(BitsOf(a \div b, 30) \o DigitsToBits(FracDigits(a % b, b, 10)),
            -80, FracRem(a % b, b, 10) # 0)

\* the carry out of digits k.. of ds * w
RECURSIVE MulCarry(_, _, _)
MulCarry(ds, w, k) ==
    IF k > Len(ds) THEN 0 ELSE (ds[k] * w + MulCarry(ds, w, k + 1)) \div 256

\* float64(w) * f for an integer 0 < w < 2^20
FloatMulInt(w, f) ==
    LET ds   == BitsToDigits(<<0, 0, 0>> \o f.m)
        prod == [k \in 1..Len(ds) |-> (ds[k] * w + MulCarry(ds, w, k + 1)) % 256]
    IN  Round53(BitsOf(MulCarry(ds, w, 1), 24) \o DigitsToBits(prod), f.x, FALSE)

\* int(f) for a positive float64 below 2^30: truncation toward zero
FloatToInt(f) ==
    LET n == MantissaBits + f.x
    IN  IF n <= 0 THEN 0 ELSE BitsValue(f.m, 1, n)

\* -------------------------------------------------------------------- texts

\* a literal piece of text
Lit(str) == [s |-> str, n |-> Len(str)]
\* a text supplied by the environment: its name and its length in bytes
Blob(name, len) == [s |-> name, n |-> len]
\* fmt's %d of a non-negative integer
Num(k) == Lit(ToString(k))

\* the bytes of pieces lo..hi of a text
RECURSIVE PiecesLen(_, _, _)
PiecesLen(t, lo, hi) ==
    IF lo > hi THEN 0
    ELSE IF lo = hi THEN t[lo].n
    ELSE PiecesLen(t, lo, (lo + hi) \div 2) + PiecesLen(t, ((lo + hi) \div 2) + 1, hi)

\* len(text)
TextLen(t) == PiecesLen(t, 1, Len(t))

\* ---------------------------------------------------------------- log lines
\* A log line is [id, len, tsw, local, off]: id its position in the file, len
\* its length in bytes, and tsw the width of the RFC3339 text it starts with
\* (25 for "2006-01-02T15:04:05+07:00", 20 for "2006-01-02T15:04:05Z", 0 for
\* none), which reads local time `local` at zone offset `off`.

\* string(line[:25]), log_analyzer_1h.go:52
TimeStr(line) ==
    [n |-> timestampWidth, tsw |-> line.tsw, local |-> line.local, off |-> line.off]

\* time.Parse(time.RFC3339, str): the layout must consume the whole string;
\* the parsed instant is the local reading less the zone offset
TimeParse(str) ==
    IF str.tsw = str.n /\ str.tsw > 0
    THEN [err |-> FALSE, t |-> str.local - str.off]
    ELSE [err |-> TRUE, t |-> 0]

\* KeepLine with the window closed at its start
KeepLineFromStart(line, start, end) ==
    /\ line.len > 0
    /\ line.len >= timestampWidth
    /\ LET p == TimeParse(TimeStr(line))
       IN  ~p.err /\ p.t >= start /\ p.t < end

\* the condition of log_analyzer_1h.go:49-54 under which a line is appended
KeepLine(line, start, end) ==
    /\ line.len > 0
    /\ line.len >= timestampWidth
    /\ LET p == TimeParse(TimeStr(line))
       IN  ~p.err /\ p.t > start /\ p.t < end

\* the filter loop, log_analyzer_1h.go:46-59
FilterLines(lines, start, end) ==
    SelectSeq(lines, LAMBDA l : KeepLine(l, start, end))

\* strings.Join(chunkLines, "\n")
JoinLines(lines) ==
    [j \in 1..(IF Len(lines) = 0 THEN 0 ELSE 2 * Len(lines) - 1) |->
        IF j % 2 = 1 THEN Blob(ToString(lines[(j + 1) \div 2].id), lines[(j + 1) \div 2].len)
        ELSE Lit("\n")]

\* estimateTokens, log_analyzer_1h.go:25-27
estimateTokens(text) == TextLen(text) \div charsPerToken

\* --------------------------------------------------------------------- JSON
\* A decoded JSON value is [k, v]: k its kind and v its payload (a text for a
\* string, the elements for an array, the [name, val] members for an
\* object).

JStr(t) == [k |-> "string", v |-> t]
JNum == [k |-> "number", v |-> <<>>]
JNull == [k |-> "null", v |-> <<>>]
JArr(elems) == [k |-> "array", v |-> elems]
JObj(members) == [k |-> "object", v |-> members]
\* a member of an object
Member(name, val) == [name |-> name, val |-> val]
\* the zero value a missing map key yields
JAbsent == [k |-> "absent", v |-> <<>>]

\* m[name] for a map[string]interface{} given by its members
Get(members, name) ==
    IF \E j \in 1..Len(members) : members[j].name = name
    THEN members[CHOOSE j \in 1..Len(members) : members[j].name = name].val
    ELSE JAbsent

\* json.Unmarshal(body, &result) into a map[string]interface{}: an error for
\* text that is not JSON and for JSON that is neither an object nor null;
\* null leaves the map nil
Unmarshal(body) ==
    IF ~body.valid THEN [err |-> TRUE, m |-> <<>>]
    ELSE IF body.val.k = "object" THEN [err |-> FALSE, m |-> body.val.v]
    ELSE IF body.val.k = "null" THEN [err |-> FALSE, m |-> <<>>]
    ELSE [err |-> TRUE, m |-> <<>>]

\* ExtractContent asking for more than one choice
ExtractContentOffByOne(m, fallback) ==
    LET choices == Get(m, "choices")
    IN  IF choices.k = "array" /\ Len(choices.v) > 1
        THEN LET choice == choices.v[1]
             IN  IF choice.k = "object"
                 THEN LET message == Get(choice.v, "message")
                      IN  IF message.k = "object"
                          THEN LET content == Get(message.v, "content")
                               IN  IF content.k = "string"
                                   THEN content.v ELSE fallback
                          ELSE fallback
                 ELSE fallback
        ELSE fallback

\* the extraction of choices[0].message.content, log_analyzer_1h.go:201-210
ExtractContent(m, fallback) ==
    LET choices == Get(m, "choices")
    IN  IF choices.k = "array" /\ Len(choices.v) > 0
        THEN LET choice == choices.v[1]
             IN  IF choice.k = "object"
                 THEN LET message == Get(choice.v, "message")
                      IN  IF message.k = "object"
                          THEN LET content == Get(message.v, "content")
                               IN  IF content.k = "string"
                                   THEN content.v ELSE fallback
                          ELSE fallback
                 ELSE fallback
        ELSE fallback

\* what processLogChunk returns for the outcome resp of its http.Post,
\* log_analyzer_1h.go:164-212: [text, isError]
ChunkResult(chunkLabel, resp) ==
    IF resp.net = "postfail"
    THEN [text |-> <<Lit("Failed to send request: "), Blob("post error", 40)>>,
          isError |-> TRUE]
    ELSE IF resp.net = "readfail"
    THEN [text |-> <<Lit("Failed to read response: "), Blob("read error", 14)>>,
          isError |-> TRUE]
    ELSE LET u == Unmarshal(resp.body)
             errorVal == Get(u.m, "error")
         IN  IF u.err
             THEN [text |-> <<Lit("Failed to parse response: "), Blob("json error", 50)>>,
                   isError |-> TRUE]
             ELSE IF errorVal.k = "object"
             THEN LET msg == Get(errorVal.v, "message")
                  IN  [text |-> <<Lit("Error from AI service: ")>>
                                \o (IF msg.k = "string" THEN msg.v
                                    ELSE <<Lit("Unknown error")>>),
                       isError |-> TRUE]
             ELSE IF errorVal.k = "string"
             THEN [text |-> <<Lit("Error from AI service: ")>> \o errorVal.v,
                   isError |-> TRUE]
             ELSE [text |-> <<Lit("=== ")>> \o chunkLabel \o <<Lit(" ===\n\n")>>
                            \o ExtractContent(u.m,
                                   <<Lit("No analysis received for ")>> \o chunkLabel
                                   \o <<Lit(".")>>),
                   isError |-> FALSE]

\* processLogChunk posting a second time after a failure
processLogChunkRetry(logText, chunkLabel, resp) ==
    [text    |-> ChunkResult(chunkLabel, resp).text,
     isError |-> ChunkResult(chunkLabel, resp).isError,
     posts   |-> IF ChunkResult(chunkLabel, resp).isError THEN 2 ELSE 1]

\* processLogChunk, log_analyzer_1h.go:140-213: one http.Post whatever its
\* outcome (json.Marshal of a map of strings and a float cannot fail, so the
\* return of line 158-161 is not taken): [text, isError, posts]
processLogChunk(logText, chunkLabel, resp) ==
    [text    |-> ChunkResult(chunkLabel, resp).text,
     isError |-> ChunkResult(chunkLabel, resp).isError,
     posts   |-> 1]

\* ---------------------------------------------------------------- reports

\* the items of a loop body that writes item and then sep, one after another
RECURSIVE WriteEach(_, _)
WriteEach(items, sep) ==
    IF items = <<>> THEN <<>>
    ELSE items[1] \o sep \o WriteEach(Tail(items), sep)

\* saveProgress leaving the errors out
ProgressTextNoErrors(analyses, errors) ==
    IF Len(analyses) > 0
    THEN <<Lit("## SUCCESSFUL ANALYSES\n\n")>>
         \o WriteEach(analyses, <<Lit("\n\n---\n\n")>>)
    ELSE <<>>

\* the buffer saveProgress builds, log_analyzer_1h.go:216-234
ProgressText(analyses, errors) ==
    (IF Len(analyses) > 0
     THEN <<Lit("## SUCCESSFUL ANALYSES\n\n")>>
          \o WriteEach(analyses, <<Lit("\n\n---\n\n")>>)
     ELSE <<>>)
    \o
    (IF Len(errors) > 0
     THEN <<Lit("\n\n## ERRORS\n\n")>> \o WriteEach(errors, <<Lit("\n\n")>>)
     ELSE <<>>)

\* the findings loop with a totalChars that is never added to
RECURSIVE FindingsLoopNoTotal(_, _, _)
FindingsLoopNoTotal(analyses, idx, totalChars) ==
    IF idx >= Len(analyses) THEN [buf |-> <<>>, total |-> totalChars]
    ELSE IF totalChars + TextLen(analyses[idx + 1]) > maxCharsPerSummary
    THEN [buf   |-> <<Lit("\n\n*Note: "), Num(Len(analyses) - idx),
                      Lit(" additional analyses were truncated due to size limits.*\n")>>,
          total |-> totalChars]
    ELSE LET rest == FindingsLoopNoTotal(analyses, idx + 1, totalChars)
         IN  [buf   |-> analyses[idx + 1] \o <<Lit("\n\n---\n\n")>> \o rest.buf,
              total |-> rest.total]

\* the loop of log_analyzer_1h.go:260-270 from index idx (0-based) on, with
\* totalChars so far: [buf, total]
RECURSIVE FindingsLoop(_, _, _)
FindingsLoop(analyses, idx, totalChars) ==
    IF idx >= Len(analyses) THEN [buf |-> <<>>, total |-> totalChars]
    ELSE IF totalChars + TextLen(analyses[idx + 1]) > maxCharsPerSummary
    THEN [buf   |-> <<Lit("\n\n*Note: "), Num(Len(analyses) - idx),
                      Lit(" additional analyses were truncated due to size limits.*\n")>>,
          total |-> totalChars]
    ELSE LET rest == FindingsLoop(analyses, idx + 1,
                                  totalChars + TextLen(analyses[idx + 1]))
         IN  [buf   |-> analyses[idx + 1] \o <<Lit("\n\n---\n\n")>> \o rest.buf,
              total |-> rest.total]

\* the loop of log_analyzer_1h.go:275-285
RECURSIVE ErrorsLoop(_, _, _)
ErrorsLoop(errors, idx, totalChars) ==
    IF idx >= Len(errors) THEN <<>>
    ELSE IF totalChars + TextLen(errors[idx + 1]) > maxCharsPerSummary
    THEN <<Lit("\n\n*Note: "), Num(Len(errors) - idx),
           Lit(" additional errors were truncated due to size limits.*\n")>>
    ELSE errors[idx + 1] \o <<Lit("\n\n")>>
         \o ErrorsLoop(errors, idx + 1, totalChars + TextLen(errors[idx + 1]))

\* the buffer compileFinalSummary builds, log_analyzer_1h.go:243-286
compileFinalSummary(analyses, errors) ==
    LET findings == FindingsLoop(analyses, 0, 0)
    IN  <<Lit("# LOG ANALYSIS SUMMARY\n"),
          Lit("Generated on "), Blob("time.Now RFC1123", 29), Lit("\n\n"),
          Lit("Processed "), Num(Len(analyses)),
          Lit(" chunks of logs from the last hour.\n")>>
        \o (IF Len(errors) > 0
            THEN <<Lit("Encountered "), Num(Len(errors)),
                   Lit(" errors during processing.\n")>>
            ELSE <<>>)
        \o <<Lit("\n---\n\n"), Lit("## DETAILED FINDINGS\n\n")>>
        \o findings.buf
        \o (IF Len(errors) > 0
            THEN <<Lit("\n\n## ERRORS\n\n")>> \o ErrorsLoop(errors, 0, findings.total)
            ELSE <<>>)

\* ----------------------------------------------------------------- chunking

\* end of the window starting at i (0-based), log_analyzer_1h.go:80-83
WindowEnd(i, lpc, total) == IF i + lpc > total THEN total ELSE i + lpc

\* newEnd of log_analyzer_1h.go:92-99 for a window [i, end) estimated at est
\* tokens, est > maxTokensPerChunk
ShrunkEnd(i, end, est, total) ==
    LET reductionFactor == FloatDiv(maxTokensPerChunk, est)
        newEnd == i + FloatToInt(FloatMulInt(end - i, reductionFactor))
        atLeastOne == IF newEnd <= i THEN i + 1 ELSE newEnd
    IN  IF atLeastOne > total THEN total ELSE atLeastOne

\* end of the chunk sent for the window starting at i, log_analyzer_1h.go:80-107
ChunkEndFor(i, end, est, total) ==
    IF est > maxTokensPerChunk THEN ShrunkEnd(i, end, est, total) ELSE end

ChunkEnd(lines, i, lpc) ==
    CHOOSE e \in
        {ChunkEndFor(i, WindowEnd(i, lpc, Len(lines)), est, Len(lines)) :
            est \in {estimateTokens(JoinLines(
                        SubSeq(lines, i + 1, WindowEnd(i, lpc, Len(lines)))))}} : TRUE

\* the index the for statement of log_analyzer_1h.go:79 continues from
NextIndex(i, end, lpc) == i + lpc

\* fmt.Sprintf("Part %d/%d", (i/linesPerChunk)+1, chunkCount)
ChunkLabel(i, lpc, count) ==
    <<Lit("Part "), Num((i \div lpc) + 1), Lit("/"), Num(count)>>

\* ----------------------------------------------------------------- enhancer
\* Texts of the enhancer are sequences of strings; a reply of the model is
\* spelled one character per element.

\* unnamed/part_000:34, the ceiling on the summary read
summaryCeiling == 100000
\* unnamed/part_000:39, how far the first newline is looked for
newlineSearch == 1000

LowerCase == <<"a", "b", "c", "d", "e", "f", "g", "h", "i", "j", "k", "l", "m",
               "n", "o", "p", "q", "r", "s", "t", "u", "v", "w", "x", "y", "z">>
UpperCase == <<"A", "B", "C", "D", "E", "F", "G", "H", "I", "J", "K", "L", "M",
               "N", "O", "P", "Q", "R", "S", "T", "U", "V", "W", "X", "Y", "Z">>

\* ToUpper leaving every character as it is
ToUpperCharKeep(c) == c

\* strings.ToUpper, character by character
ToUpperChar(c) ==
    IF \E j \in 1..Len(LowerCase) : LowerCase[j] = c
    THEN UpperCase[CHOOSE j \in 1..Len(LowerCase) : LowerCase[j] = c]
    ELSE c
ToUpper(text) == [j \in 1..Len(text) |-> ToUpperChar(text[j])]

\* strings.Contains
Contains(text, substr) ==
    \E p \in 0..(Len(text) - Len(substr)) :
        \A j \in 1..Len(substr) : text[p + j] = substr[j]

RecommendationWord ==
    <<"R", "E", "C", "O", "M", "M", "E", "N", "D", "A", "T", "I", "O", "N">>

NoSummaryGenerated ==
    <<"N", "o", " ", "s", "u", "m", "m", "a", "r", "y", " ",
      "g", "e", "n", "e", "r", "a", "t", "e", "d", ".">>

FallbackSection ==
    <<"\n\n## RECOMMENDATIONS\n\n",
      "The AI did not provide specific recommendations. Please review the summary to determine appropriate actions.\n">>

\* the bytes of lines lo..hi of a summary given by its line lengths
RECURSIVE LinesLen(_, _, _)
LinesLen(lens, lo, hi) ==
    IF lo > hi THEN 0 ELSE lens[lo] + LinesLen(lens, lo + 1, hi)

\* main of the enhancer, unnamed/part_000:34-46, on a summary given by the
\* lengths of its lines (each with its newline): [skip, len], the bytes
\* dropped from the front and the bytes kept
TruncateSummary(lens) ==
    LET total == LinesLen(lens, 1, Len(lens))
        cut   == total - summaryCeiling
        \* the line holding the first byte kept
        k     == CHOOSE j \in 1..Len(lens) :
                    LinesLen(lens, 1, j) > cut /\ LinesLen(lens, 1, j - 1) <= cut
        \* index of that line's newline in the truncated data
        nl    == LinesLen(lens, 1, k) - 1 - cut
    IN  IF total <= summaryCeiling THEN [skip |-> 0, len |-> total]
        ELSE IF nl < newlineSearch /\ nl < summaryCeiling
        THEN [skip |-> cut + nl + 1, len |-> summaryCeiling - nl - 1]
        ELSE [skip |-> cut, len |-> summaryCeiling]

\* enhanceSummaryWithRecommendations, unnamed/part_000:63-147, given the
\* outcome resp of the one http.Post it issues: [err, text, posts]
enhanceSummaryWithRecommendations(summaryText, resp) ==
    IF resp.net = "postfail" \/ resp.net = "readfail"
    THEN [err |-> TRUE, text |-> <<>>, posts |-> 1]
    ELSE LET u == Unmarshal(resp.body)
             errorVal == Get(u.m, "error")
             enhancedSummary == ExtractContent(u.m, NoSummaryGenerated)
         IN  IF u.err \/ errorVal.k = "object" \/ errorVal.k = "string"
             THEN [err |-> TRUE, text |-> <<>>, posts |-> 1]
             ELSE [err   |-> FALSE,
                   text  |-> <<"# ENHANCED LOG SUMMARY WITH RECOMMENDATIONS\n",
                               "Generated on ", "time.Now RFC1123", "\n\n">>
                             \o enhancedSummary
                             \o (IF ~Contains(ToUpper(enhancedSummary), RecommendationWord)
                                 THEN FallbackSection ELSE <<>>),
                   posts |-> 1]

\* -------------------------------------------------------------- environment

\* bytes.Split(logData, "\n") of the log files the model runs on: every file
\* of at most MaxSmallFile lines over LineKinds, and the files of up to
\* MaxLines lines inside the window whose lines are a bytes long, the last b
LineKinds ==
    {[len |-> 0,  tsw |-> 0,  local |-> 0, off |-> 0],
     [len |-> 40, tsw |-> 0,  local |-> 0, off |-> 0],
     [len |-> 20, tsw |-> 20, local |-> ClockNow - 1, off |-> 0],
     [len |-> 40, tsw |-> 20, local |-> ClockNow - 1, off |-> 0],
     [len |-> 25, tsw |-> 25, local |-> ClockNow - TicksPerHour, off |-> 0],
     [len |-> 25, tsw |-> 25, local |-> ClockNow - TicksPerHour + 1, off |-> 0],
     [len |-> 25, tsw |-> 25, local |-> ClockNow, off |-> 0],
     [len |-> 40, tsw |-> 25, local |-> ClockNow, off |-> 1],
     [len |-> 25, tsw |-> 25, local |-> ClockNow - 1, off |-> -1]}

WithIds(kinds) ==
    [j \in 1..Len(kinds) |->
        [id |-> j, len |-> kinds[j].len, tsw |-> kinds[j].tsw,
         local |-> kinds[j].local, off |-> kinds[j].off]]

SmallFiles ==
    {WithIds(f) : f \in UNION {[1..n -> LineKinds] : n \in 1..MaxSmallFile}}

LongLineLens == {40, 399, 400, 7000}

LongFile(n, a, b) ==
    [j \in 1..n |->
        [id |-> j, len |-> IF j < n THEN a ELSE b, tsw |-> timestampWidth,
         local |-> ClockNow - 1 + (j % 2), off |-> j % 2]]

LongFiles ==
    {LongFile(n, a, b) : n \in 1..MaxLines, a \in LongLineLens, b \in LongLineLens}

LogFiles == SmallFiles \cup LongFiles

\* texts a completion server may send
ContentX == <<Blob("X", 12)>>
ContentL == <<Blob("XL", 10000)>>
ContentXL == <<Blob("XXL", 20000)>>
MsgBad == <<Blob("bad", 3)>>
MsgBadL == <<Blob("badL", 20000)>>

Choices(content) ==
    Member("choices", JArr(<<JObj(<< Member("message", JObj(<< Member("content", content) >>)) >>)>>))

Json(val) == [valid |-> TRUE, val |-> val]
NotJson == [valid |-> FALSE, val |-> JNull]

\* the response bodies the model runs on
Bodies ==
    {Json(JObj(<<Choices(JStr(ContentX))>>)),
     Json(JObj(<<Choices(JStr(ContentL))>>)),
     Json(JObj(<<Choices(JStr(ContentXL))>>)),
     Json(JObj(<< Member("error", JObj(<< Member("message", JStr(MsgBad)) >>)) >>)),
     Json(JObj(<< Member("error", JObj(<< Member("message", JStr(MsgBadL)) >>)) >>)),
     Json(JObj(<< Member("error", JStr(MsgBad)) >>)),
     Json(JObj(<< Member("error", JObj(<< Member("code", JNum) >>)) >>)),
     Json(JObj(<< Member("error", JObj(<< Member("message", JStr(MsgBad)) >>)),
                  Choices(JStr(ContentX)) >>)),
     Json(JObj(<< Member("error", JNull), Choices(JStr(ContentX)) >>)),
     Json(JObj(<< Member("error", JNum) >>)),
     Json(JObj(<< Member("choices", JArr(<<>>)) >>)),
     Json(JObj(<<>>)),
     Json(JObj(<< Member("choices", JArr(<<JNum>>)) >>)),
     Json(JObj(<< Member("choices", JStr(ContentX)) >>)),
     Json(JObj(<< Member("choices", JArr(<<JObj(<< Member("message", JStr(ContentX)) >>)>>)) >>)),
     Json(JObj(<<Choices(JNum)>>)),
     Json(JArr(<<JNum>>)),
     Json(JNull),
     NotJson}

\* the outcomes of one http.Post and io.ReadAll: a transport failure, a
\* failed read, or a status and a body
Responses ==
    {[net |-> "postfail", status |-> 0, body |-> NotJson],
     [net |-> "readfail", status |-> 200, body |-> NotJson]}
    \cup {[net |-> "ok", status |-> 200, body |-> b] : b \in Bodies}
    \cup {[net |-> "ok", status |-> 500, body |-> b] :
            b \in {NotJson, Json(JObj(<<>>)),
                   Json(JObj(<< Member("error", JObj(<< Member("message", JStr(MsgBad)) >>)) >>))}}

\* the summaries the enhancer runs on, by the lengths of their lines
SummaryLineLens == {2000, 40000, 59500}
Summaries == UNION {[1..n -> SummaryLineLens] : n \in 0..MaxSummaryLines}

\* replies of the model to the enhancer: a spelling of the word, or a near
\* miss, between a prefix and a suffix
ReplyWords ==
    {RecommendationWord,
     <<"r", "e", "c", "o", "m", "m", "e", "n", "d", "a", "t", "i", "o", "n">>,
     <<"R", "e", "c", "o", "m", "m", "e", "n", "d", "a", "t", "i", "o", "n">>,
     <<"R", "E", "C", "O", "M", "M", "E", "N", "D", "A", "T", "I", "O">>,
     <<"r", "e", "c", "o", "m", "e", "n", "d", "a", "t", "i", "o", "n">>,
     <<"R", "E", "C", "O", "M", "M", "E", "N", "D", " ", "A", "T", "I", "O", "N">>,
     <<"a", "d", "v", "i", "c", "e">>,
     <<>>}
ReplyAffixes == {<<>>, <<"#", " ">>, <<"R", "E">>, <<"s", ".">>}
Replies == {pre \o w \o suf : pre \in ReplyAffixes, w \in ReplyWords, suf \in ReplyAffixes}

EMsgBad == <<"b", "a", "d">>

EBodies ==
    {Json(JObj(<<Choices(JStr(r))>>)) : r \in Replies}
    \cup
    {Json(JObj(<< Member("error", JObj(<< Member("message", JStr(EMsgBad)) >>)) >>)),
     Json(JObj(<< Member("error", JStr(EMsgBad)) >>)),
     Json(JObj(<< Member("error", JObj(<<>>)), Choices(JStr(RecommendationWord)) >>)),
     Json(JObj(<< Member("error", JNull), Choices(JStr(RecommendationWord)) >>)),
     Json(JObj(<< Member("choices", JArr(<<>>)) >>)),
     Json(JObj(<<>>)),
     Json(JObj(<<Choices(JNum)>>)),
     Json(JArr(<<JNum>>)),
     Json(JNull),
     NotJson}

EResponses ==
    {[net |-> "postfail", status |-> 0, body |-> NotJson],
     [net |-> "readfail", status |-> 200, body |-> NotJson]}
    \cup {[net |-> "ok", status |-> 200, body |-> b] : b \in EBodies}
    \cup {[net |-> "ok", status |-> 500, body |-> b] :
            b \in {NotJson, Json(JObj(<<>>))}}

\* -------------------------------------------------------------------- state

VARIABLES
    pc,                 \* where main of the analyzer stands
    logReadable,        \* whether os.ReadFile(logFilePath) succeeds
    logLines,           \* bytes.Split(logData, "\n")
    startTime, endTime, \* the window
    filteredLogLines,
    linesPerChunk, chunkCount,
    i,                  \* the loop index of log_analyzer_1h.go:79
    successfulAnalyses, errorMessages,
    outputFile,         \* /home/pi/log_summary.txt: [exists, text]
    calls,              \* history: one record per processLogChunk call
    posts,              \* history: number of http.Post calls issued
    writes,             \* history: the os.WriteFile calls, in order
    epc,                \* where main of the enhancer stands
    summaryReadable,    \* whether os.ReadFile(summaryFilePath) succeeds
    summaryLines,       \* the summary file, by the lengths of its lines
    summaryText,        \* the text sent: [skip, len]
    ecall,              \* history: the response to the enhancer's request
    eposts,             \* history: number of http.Post calls of the enhancer
    recommendationsFile \* /home/pi/log_recommendations.txt: [exists, text]

avars == <<pc, logReadable, logLines, startTime, endTime, filteredLogLines,
           linesPerChunk, chunkCount, i, successfulAnalyses, errorMessages,
           outputFile, calls, posts, writes>>
evars == <<epc, summaryReadable, summaryLines, summaryText, ecall, eposts,
           recommendationsFile>>
vars == <<avars, evars>>

\* a program that is not run
AnalyzerIdle ==
    /\ pc = "idle" /\ logReadable = FALSE /\ logLines = <<>>
    /\ startTime = 0 /\ endTime = 0 /\ filteredLogLines = <<>>
    /\ linesPerChunk = 0 /\ chunkCount = 0 /\ i = 0
    /\ successfulAnalyses = <<>> /\ errorMessages = <<>>
    /\ outputFile = [exists |-> FALSE, text |-> <<>>]
    /\ calls = <<>> /\ posts = 0 /\ writes = <<>>
EnhancerIdle ==
    /\ epc = "idle" /\ summaryReadable = FALSE /\ summaryLines = <<>>
    /\ summaryText = [skip |-> 0, len |-> 0]
    /\ ecall = <<>> /\ eposts = 0
    /\ recommendationsFile = [exists |-> FALSE, text |-> <<>>]

Init ==
    /\ pc = "start"
    /\ logReadable \in BOOLEAN
    /\ logLines \in (IF logReadable THEN LogFiles ELSE {<<>>})
    /\ startTime = 0 /\ endTime = 0
    /\ filteredLogLines = <<>>
    /\ linesPerChunk = 0 /\ chunkCount = 0 /\ i = 0
    /\ successfulAnalyses = <<>> /\ errorMessages = <<>>
    /\ outputFile = [exists |-> FALSE, text |-> <<>>]
    /\ calls = <<>> /\ posts = 0 /\ writes = <<>>
    /\ EnhancerIdle

\* main, log_analyzer_1h.go:29-61: the window, the read and the filter
ReadAndFilter ==
    /\ pc = "start"
    /\ IF logReadable
       THEN /\ endTime' = ClockNow
            /\ startTime' = ClockNow - TicksPerHour
            /\ filteredLogLines' =
                   FilterLines(logLines, ClockNow - TicksPerHour, ClockNow)
            /\ pc' = "plan"
       ELSE /\ pc' = "fatal"
            /\ UNCHANGED <<startTime, endTime, filteredLogLines>>
    /\ UNCHANGED <<logReadable, logLines, linesPerChunk, chunkCount, i,
                   successfulAnalyses, errorMessages, outputFile, calls, posts,
                   writes>>

\* linesPerChunk of log_analyzer_1h.go:65-70
PlannedLinesPerChunk(total) ==
    IF total <= initialLinesPerChunk THEN total ELSE initialLinesPerChunk

\* main, log_analyzer_1h.go:63-78: linesPerChunk and chunkCount; the integer
\* division by a zero linesPerChunk panics
PlanChunks ==
    /\ pc = "plan"
    /\ linesPerChunk' = PlannedLinesPerChunk(Len(filteredLogLines))
    /\ IF linesPerChunk' = 0
       THEN pc' = "panic" /\ UNCHANGED chunkCount
       ELSE /\ chunkCount' =
                  (Len(filteredLogLines) + linesPerChunk' - 1) \div linesPerChunk'
            /\ pc' = "loop"
    /\ i' = 0
    /\ UNCHANGED <<logReadable, logLines, startTime, endTime, filteredLogLines,
                   successfulAnalyses, errorMessages, outputFile, calls, posts,
                   writes>>

\* one iteration of the loop up to the append, log_analyzer_1h.go:79-123
ProcessChunk ==
    /\ pc = "loop"
    /\ i < Len(filteredLogLines)
    /\ \E end \in {ChunkEnd(filteredLogLines, i, linesPerChunk)} :
       \E chunkLines \in {SubSeq(filteredLogLines, i + 1, end)} :
       \E label \in {ChunkLabel(i, linesPerChunk, chunkCount)} :
       \E resp \in Responses :
       \E r \in {processLogChunk(JoinLines(chunkLines), label, resp)} :
            /\ IF r.isError
               THEN /\ errorMessages' = Append(errorMessages, r.text)
                    /\ UNCHANGED successfulAnalyses
               ELSE /\ successfulAnalyses' = Append(successfulAnalyses, r.text)
                    /\ UNCHANGED errorMessages
            /\ calls' = Append(calls,
                   [label |-> label, from |-> i, to |-> end,
                    ids |-> [j \in 1..Len(chunkLines) |-> chunkLines[j].id],
                    resp |-> resp, isError |-> r.isError, text |-> r.text])
            /\ posts' = posts + r.posts
    /\ pc' = "save"
    /\ UNCHANGED <<logReadable, logLines, startTime, endTime, filteredLogLines,
                   linesPerChunk, chunkCount, i, outputFile, writes>>

\* the end of the iteration: saveProgress (log_analyzer_1h.go:126, 215-241)
\* and the loop's post statement
SaveProgress ==
    /\ pc = "save"
    /\ outputFile' =
           [exists |-> TRUE, text |-> ProgressText(successfulAnalyses, errorMessages)]
    /\ writes' = Append(writes,
           [kind |-> "progress",
            text |-> ProgressText(successfulAnalyses, errorMessages)])
    /\ i' = NextIndex(i, calls[Len(calls)].to, linesPerChunk)
    /\ pc' = "loop"
    /\ UNCHANGED <<logReadable, logLines, startTime, endTime, filteredLogLines,
                   linesPerChunk, chunkCount, successfulAnalyses, errorMessages,
                   calls, posts>>

\* main writing the final report whatever the chunks gave
FinishAlways ==
    /\ pc = "loop"
    /\ i >= Len(filteredLogLines)
    /\ outputFile' =
           [exists |-> TRUE,
            text |-> compileFinalSummary(successfulAnalyses, errorMessages)]
    /\ writes' = Append(writes,
           [kind |-> "final",
            text |-> compileFinalSummary(successfulAnalyses, errorMessages)])
    /\ pc' = "done"
    /\ UNCHANGED <<logReadable, logLines, startTime, endTime, filteredLogLines,
                   linesPerChunk, chunkCount, i, successfulAnalyses,
                   errorMessages, calls, posts>>

\* main after the loop, log_analyzer_1h.go:129-137
Finish ==
    /\ pc = "loop"
    /\ i >= Len(filteredLogLines)
    /\ IF Len(successfulAnalyses) > 0
       THEN /\ outputFile' =
                  [exists |-> TRUE,
                   text |-> compileFinalSummary(successfulAnalyses, errorMessages)]
            /\ writes' = Append(writes,
                  [kind |-> "final",
                   text |-> compileFinalSummary(successfulAnalyses, errorMessages)])
       ELSE UNCHANGED <<outputFile, writes>>
    /\ pc' = "done"
    /\ UNCHANGED <<logReadable, logLines, startTime, endTime, filteredLogLines,
                   linesPerChunk, chunkCount, i, successfulAnalyses,
                   errorMessages, calls, posts>>

Next ==
    \/ ReadAndFilter /\ UNCHANGED evars
    \/ PlanChunks /\ UNCHANGED evars
    \/ ProcessChunk /\ UNCHANGED evars
    \/ SaveProgress /\ UNCHANGED evars
    \/ Finish /\ UNCHANGED evars

Spec == Init /\ [][Next]_vars

\* ------------------------------------------------------- the enhancer's run

InitEnhancer ==
    /\ AnalyzerIdle
    /\ epc = "start"
    /\ summaryReadable \in BOOLEAN
    /\ summaryLines \in (IF summaryReadable THEN Summaries ELSE {<<>>})
    /\ summaryText = [skip |-> 0, len |-> 0]
    /\ ecall = <<>> /\ eposts = 0
    /\ recommendationsFile = [exists |-> FALSE, text |-> <<>>]

\* main of the enhancer, unnamed/part_000:22-46: the read and the truncation
ReadSummary ==
    /\ epc = "start"
    /\ IF summaryReadable
       THEN summaryText' = TruncateSummary(summaryLines) /\ epc' = "enhance"
       ELSE epc' = "fatal" /\ UNCHANGED summaryText
    /\ UNCHANGED <<summaryReadable, summaryLines, ecall, eposts, recommendationsFile>>

\* main of the enhancer, unnamed/part_000:48-60: the request and the write
Enhance ==
    /\ epc = "enhance"
    /\ \E resp \in EResponses :
       \E r \in {enhanceSummaryWithRecommendations(summaryText, resp)} :
            /\ ecall' = <<resp>>
            /\ eposts' = eposts + r.posts
            /\ IF r.err
               THEN epc' = "fatal" /\ UNCHANGED recommendationsFile
               ELSE /\ recommendationsFile' = [exists |-> TRUE, text |-> r.text]
                    /\ epc' = "done"
    /\ UNCHANGED <<summaryReadable, summaryLines, summaryText>>

NextEnhancer ==
    \/ ReadSummary /\ UNCHANGED avars
    \/ Enhance /\ UNCHANGED avars

SpecEnhancer == InitEnhancer /\ [][NextEnhancer]_vars

\* =================================================================== claims

\* the ids of the lines of the first k chunks sent, in processing order
RECURSIVE SentIds(_)
SentIds(k) == IF k = 0 THEN <<>> ELSE SentIds(k - 1) \o calls[k].ids

\* C1: once the run is done, no chunk sent to processLogChunk was empty and
\* the lines of the chunks, concatenated in processing order, are the
\* filtered line sequence.
C1_NoLineDropped ==
    pc = "done" =>
        /\ \A k \in 1..Len(calls) : Len(calls[k].ids) > 0
        /\ SentIds(Len(calls))
               = [j \in 1..Len(filteredLogLines) |-> filteredLogLines[j].id]

\* a line the claim says is retained: at least 25 bytes, the first 25 an
\* RFC3339 timestamp, its instant strictly inside the window
Retained(l) ==
    /\ l.len >= 25
    /\ l.tsw = 25
    /\ startTime < l.local - l.off
    /\ l.local - l.off < endTime

\* C2: when the filter has run, a line of the file is among the filtered lines iff
\* it has at least 25 bytes, its first 25 bytes are an RFC3339 timestamp and
\* the instant lies strictly between start and end; the filtered lines are
\* lines of the file in their original relative order.
C2_FilterRetains ==
    pc = "plan" =>
        /\ \A j \in 1..Len(logLines) :
              Retained(logLines[j])
                  <=> \E k \in 1..Len(filteredLogLines) :
                          filteredLogLines[k] = logLines[j]
        /\ \A k \in 1..Len(filteredLogLines) :
              \E j \in 1..Len(logLines) : logLines[j] = filteredLogLines[k]
        /\ \A p \in 1..Len(filteredLogLines) : \A q \in 1..Len(filteredLogLines) :
              p < q => filteredLogLines[p].id < filteredLogLines[q].id

\* a two-line file filtered to one line, the other dropped for lying exactly
\* on the end of the window
C2_Witness ==
    /\ pc = "plan"
    /\ Len(logLines) = 2
    /\ Len(filteredLogLines) = 1
    /\ \E j \in 1..2 :
          /\ logLines[j].len >= 25 /\ logLines[j].tsw = 25
          /\ logLines[j].local - logLines[j].off = endTime

\* the texts of those of the first k calls that failed (or not), in order
ResultTexts(k, failed) ==
    LET sel == SelectSeq(SubSeq(calls, 1, k), LAMBDA c : c.isError = failed)
    IN  [j \in 1..Len(sel) |-> sel[j].text]
CallTexts(failed) == ResultTexts(Len(calls), failed)

\* C3: every chunk processed issued exactly one request, added its result to
\* exactly one of successfulAnalyses and errorMessages, and the loop went on
\* to every chunk whatever the outcomes: the two lists together are as long
\* as the number of chunks processed, which at the end is chunkCount.
C3_OneRequestOneEntry ==
    /\ posts = Len(calls)
    /\ Len(successfulAnalyses) + Len(errorMessages) = Len(calls)
    /\ successfulAnalyses = CallTexts(FALSE)
    /\ errorMessages = CallTexts(TRUE)
    /\ pc = "loop" => Len(calls) = i \div linesPerChunk
    /\ pc = "save" => Len(calls) = (i \div linesPerChunk) + 1
    /\ pc = "done" => Len(calls) = chunkCount

\* a finished run of two chunks, the first failed and the second processed
C3_Witness ==
    /\ pc = "done"
    /\ Len(calls) = 2
    /\ calls[1].isError
    /\ ~calls[2].isError

\* the first k texts, each followed by sep
RECURSIVE Under(_, _, _)
Under(texts, sep, k) ==
    IF k = 0 THEN <<>> ELSE Under(texts, sep, k - 1) \o texts[k] \o sep

\* the rendering of the first k chunk results the claim describes: the
\* successes in order under one heading, the errors in order under another
Checkpoint(k) ==
    LET ok  == ResultTexts(k, FALSE)
        bad == ResultTexts(k, TRUE)
    IN  (IF Len(ok) = 0 THEN <<>>
         ELSE <<Lit("## SUCCESSFUL ANALYSES\n\n")>>
              \o Under(ok, <<Lit("\n\n---\n\n")>>, Len(ok)))
        \o
        (IF Len(bad) = 0 THEN <<>>
         ELSE <<Lit("\n\n## ERRORS\n\n")>> \o Under(bad, <<Lit("\n\n")>>, Len(bad)))

\* the chunks whose checkpoint is due: all processed but the one in hand
ChunksSaved == IF pc = "save" THEN Len(calls) - 1 ELSE Len(calls)

TextContains(t, sub) ==
    \E p \in 0..(Len(t) - Len(sub)) : \A j \in 1..Len(sub) : t[p + j] = sub[j]

\* the values of the members called name of an object
Field(m, name) == {m[j].val : j \in {jj \in 1..Len(m) : m[jj].name = name}}

\* the message of the API error a body reports, if it reports one
ApiErrors(body) ==
    IF body.valid /\ body.val.k = "object"
    THEN {e \in Field(body.val.v, "error") : e.k \in {"object", "string"}}
    ELSE {}

\* an outcome the claim lists: transport failure, a status outside 2xx, a
\* body that is not JSON (or not a JSON object), an API-reported error
FailureOutcome(resp) ==
    \/ resp.net # "ok"
    \/ resp.status \notin 200..299
    \/ ~resp.body.valid
    \/ resp.body.val.k \notin {"object", "null"}
    \/ ApiErrors(resp.body) # {}

\* C5: every chunk call that ended in a transport failure, a non-2xx or
\* non-JSON response or an API-reported error is an entry of errorMessages
\* that carries the chunk's "Part i/N" label, and is not an entry of
\* successfulAnalyses.
C5_FailuresLabelled ==
    \A k \in 1..Len(calls) :
        FailureOutcome(calls[k].resp) =>
            /\ calls[k].isError
            /\ \E j \in 1..Len(errorMessages) :
                  /\ errorMessages[j] = calls[k].text
                  /\ TextContains(errorMessages[j], calls[k].label)
            /\ \A j \in 1..Len(successfulAnalyses) :
                  successfulAnalyses[j] # calls[k].text

\* the texts at choices[0].message.content of an object, if the path is there
Contents(m) ==
    LET choices  == {ch \in Field(m, "choices") :
                        ch.k = "array" /\ Len(ch.v) > 0 /\ ch.v[1].k = "object"}
        messages == {msg \in UNION {Field(ch.v[1].v, "message") : ch \in choices} :
                        msg.k = "object"}
        contents == {c \in UNION {Field(msg.v, "content") : msg \in messages} :
                        c.k = "string"}
    IN  {c.v : c \in contents}

\* the messages the API errors of a body carry
ErrorMessagesOf(body) ==
    {e.v : e \in {e \in ApiErrors(body) : e.k = "string"}}
    \cup UNION {{msg.v : msg \in {msg \in Field(e.v, "message") : msg.k = "string"}} :
                   e \in {e \in ApiErrors(body) : e.k = "object"}}

\* the "=== label ===" line processLogChunk puts before an analysis
LabelHeader(label) == <<Lit("=== ")>> \o label \o <<Lit(" ===\n\n")>>

\* C6: for every call whose response body was read and is a JSON object: a
\* body with no error field and a text X at choices[0].message.content gives
\* a non-failure result whose analysis (the text after the label header) is
\* X; a body with no error field and that path absent or of the wrong shape
\* gives the "No analysis received" placeholder, not a failure; a body with
\* an error object or error string gives a failure carrying its message.
C6_ParsingContract ==
    \A k \in 1..Len(calls) :
        LET c == calls[k]
            m == c.resp.body.val.v
        IN  (c.resp.net = "ok" /\ c.resp.body.valid /\ c.resp.body.val.k = "object") =>
                /\ (Field(m, "error") = {} /\ Contents(m) # {}) =>
                      /\ ~c.isError
                      /\ \E x \in Contents(m) : c.text = LabelHeader(c.label) \o x
                /\ (Field(m, "error") = {} /\ Contents(m) = {}) =>
                      /\ ~c.isError
                      /\ c.text = LabelHeader(c.label)
                                  \o <<Lit("No analysis received for ")>> \o c.label
                                  \o <<Lit(".")>>
                /\ ApiErrors(c.resp.body) # {} =>
                      /\ c.isError
                      /\ \A bad \in ErrorMessagesOf(c.resp.body) :
                            TextContains(c.text, bad)

\* chunk 1 answered with a content X, chunk 2 with {"choices":[]}
C6_Witness ==
    /\ Len(calls) = 2
    /\ calls[1].resp.net = "ok"
    /\ calls[1].resp.body = Json(JObj(<<Choices(JStr(ContentX))>>))
    /\ calls[2].resp.net = "ok"
    /\ calls[2].resp.body = Json(JObj(<<Member("choices", JArr(<<>>))>>))

\* the index (0-based) at which the cumulative length of texts first exceeds
\* ceiling, Len(texts) if it never does
FirstOver(texts, ceiling) ==
    LET over == {k \in 0..(Len(texts) - 1) :
                    PiecesLen([j \in 1..(k + 1) |-> [n |-> TextLen(texts[j])]],
                              1, k + 1) > ceiling}
    IN  IF over = {} THEN Len(texts)
        ELSE CHOOSE k \in over : \A k2 \in over : k <= k2

\* the position of a piece in a text, 0 if it is not there
PieceAt(t, piece) ==
    IF \E p \in 1..Len(t) : t[p] = piece
    THEN CHOOSE p \in 1..Len(t) : t[p] = piece /\ \A q \in 1..(p - 1) : t[q] # piece
    ELSE 0

\* what a final report holds between its DETAILED FINDINGS heading and its
\* ERRORS heading (or its end)
FindingsOf(report) ==
    LET from == PieceAt(report, Lit("## DETAILED FINDINGS\n\n"))
        upto == PieceAt(report, Lit("\n\n## ERRORS\n\n"))
    IN  SubSeq(report, from + 1, IF upto = 0 THEN Len(report) ELSE upto - 1)

\* the truncation notes of a report, of either section
NotesOf(report) ==
    SelectSeq(report, LAMBDA piece :
        piece \in {Lit(" additional analyses were truncated due to size limits.*\n"),
                   Lit(" additional errors were truncated due to size limits.*\n")})

\* the findings the claim describes for analyses cut at index cut
ExpectedFindings(analyses, cut) ==
    Under(analyses, <<Lit("\n\n---\n\n")>>, cut)
    \o (IF cut < Len(analyses)
        THEN <<Lit("\n\n*Note: "), Num(Len(analyses) - cut),
               Lit(" additional analyses were truncated due to size limits.*\n")>>
        ELSE <<>>)

\* the final report, once written
FinalWritten == pc = "done" /\ Len(successfulAnalyses) > 0

\* C7 (as stated): with i the index at which the cumulative length of the
\* analyses first exceeds maxCharsPerSummary, the final report holds analyses
\* [0, i) verbatim and in order, none of the later ones, and one truncation
\* note citing len(analyses) - i; when the cumulative length never exceeds the
\* ceiling the report holds all analyses and no truncation note at all.
C7_AsStated ==
    FinalWritten =>
        LET cut == FirstOver(successfulAnalyses, maxCharsPerSummary)
        IN  /\ FindingsOf(outputFile.text) = ExpectedFindings(successfulAnalyses, cut)
            /\ Len(NotesOf(outputFile.text))
                  = (IF cut < Len(successfulAnalyses) THEN 1 ELSE 0)

\* C7: with i the index at which the cumulative length of the analyses first
\* exceeds maxCharsPerSummary, the findings section of the final report is
\* analyses [0, i) verbatim and in order, each followed by its separator,
\* then, iff i < len(analyses), one note citing len(analyses) - i analyses
\* truncated; any other truncation note of the report is the one of the
\* errors section, which follows the findings section.
C7_FindingsTruncation ==
    FinalWritten =>
        LET cut    == FirstOver(successfulAnalyses, maxCharsPerSummary)
            report == outputFile.text
            errs   == PieceAt(report, Lit("\n\n## ERRORS\n\n"))
        IN  /\ FindingsOf(report) = ExpectedFindings(successfulAnalyses, cut)
            /\ \A p \in 1..Len(report) :
                  report[p] = Lit(" additional errors were truncated due to size limits.*\n")
                      => errs > 0 /\ p > errs
            /\ \A p \in 1..Len(report) :
                  report[p] = Lit(" additional analyses were truncated due to size limits.*\n")
                      => cut < Len(successfulAnalyses) /\ (errs > 0 => p < errs)

\* two analyses of which the second goes over the ceiling
C7_Witness ==
    /\ FinalWritten
    /\ Len(successfulAnalyses) = 2
    /\ FirstOver(successfulAnalyses, maxCharsPerSummary) = 1

\* the bytes of the newline-joined lines from+1..to of the filtered lines
RECURSIVE JoinedLen(_, _)
JoinedLen(from, to) ==
    IF to <= from THEN 0
    ELSE JoinedLen(from, to - 1) + filteredLogLines[to].len
         + (IF to - 1 > from THEN 1 ELSE 0)

\* C8: a window of w lines estimated at e tokens (the bytes of the
\* newline-joined window divided by 4, rounded down) is sent whole when
\* e <= maxTokensPerChunk, and otherwise as its first
\* max(1, floor(w * maxTokensPerChunk / e)) lines, at least 1 and at most w.
C8_ShrunkSize ==
    \A k \in 1..Len(calls) :
        LET c    == calls[k]
            wEnd == IF c.from + linesPerChunk > Len(filteredLogLines)
                    THEN Len(filteredLogLines) ELSE c.from + linesPerChunk
            w    == wEnd - c.from
            e    == JoinedLen(c.from, wEnd) \div charsPerToken
            sent == c.to - c.from
            floored == (w * maxTokensPerChunk) \div e
        IN  /\ sent >= 1 /\ sent <= w
            /\ c.ids = [j \in 1..sent |-> filteredLogLines[c.from + j].id]
            /\ IF e > maxTokensPerChunk
               THEN sent = (IF floored < 1 THEN 1 ELSE floored)
               ELSE sent = w

\* the writes of the final report
FinalWrites == {j \in 1..Len(writes) : writes[j].kind = "final"}

\* the pieces occur one after the other in the text t
HasRun(t, pieces) == TextContains(t, pieces)

SameLetter(a, b) ==
    a = b \/ \E j \in 1..Len(LowerCase) : {a, b} = {LowerCase[j], UpperCase[j]}

\* word occurs in text, compared case-insensitively
ContainsFold(text, word) ==
    \E p \in 0..(Len(text) - Len(word)) :
        \A j \in 1..Len(word) : SameLetter(text[p + j], word[j])

\* a failure of the request/parse path of the enhancer: the request or the
\* read of the body failed, the body is not a JSON object (or null), or it
\* reports an API error
EnhancerFailure(resp) ==
    \/ resp.net # "ok"
    \/ ~resp.body.valid
    \/ resp.body.val.k \notin {"object", "null"}
    \/ ApiErrors(resp.body) # {}

\* the reply text of a response that is no failure
ReplyOf(resp) ==
    IF resp.body.val.k = "object" /\ Contents(resp.body.val.v) # {}
    THEN CHOOSE x \in Contents(resp.body.val.v) : TRUE
    ELSE NoSummaryGenerated

\* C10: once the enhancer has made its request: on a failure of the
\* request/parse path it has stopped and written no output file; otherwise
\* it has written the file, the file holds the reply, and the file holds the
\* synthesized RECOMMENDATIONS section iff the reply does not contain
\* "RECOMMENDATION" compared case-insensitively.
C10_FallbackIffNoRecommendation ==
    Len(ecall) = 1 =>
        IF EnhancerFailure(ecall[1])
        THEN epc = "fatal" /\ ~recommendationsFile.exists
        ELSE /\ epc = "done" /\ recommendationsFile.exists
             /\ TextContains(recommendationsFile.text, ReplyOf(ecall[1]))
             /\ TextContains(recommendationsFile.text, FallbackSection)
                    <=> ~ContainsFold(ReplyOf(ecall[1]), RecommendationWord)

\* a reply that has the word in lower case, and no fallback section
C10_Witness ==
    /\ epc = "done"
    /\ Len(ecall) = 1
    /\ ecall[1].net = "ok"
    /\ ecall[1].body.valid
    /\ ReplyOf(ecall[1]) =
          <<"r", "e", "c", "o", "m", "m", "e", "n", "d", "a", "t", "i", "o", "n">>
    /\ ~TextContains(recommendationsFile.text, FallbackSection)

\* the chunking phase as the claim describes it, for the states past the plan
ChunkingAsPlanned ==
    /\ linesPerChunk >= 1
    /\ chunkCount = (Len(filteredLogLines) + linesPerChunk - 1) \div linesPerChunk
    /\ \A k \in 1..Len(calls) :
          /\ calls[k].from = (k - 1) * linesPerChunk
          /\ k > 1 => calls[k].from > calls[k - 1].from
          /\ calls[k].label = <<Lit("Part "), Num(k), Lit("/"), Num(chunkCount)>>
    /\ Len(calls) <= chunkCount
    /\ pc = "done" => Len(calls) = chunkCount

\* C11: for every filtered line sequence, the empty one included, the
\* chunking phase runs without a runtime fault: linesPerChunk is at least 1
\* wherever it divides or steps, the window start strictly increases from
\* one iteration to the next, and the loop ends after exactly
\* chunkCount = ceil(len / linesPerChunk) iterations labelled Part 1/N ..
\* Part N/N in increasing order.
C11_ChunkingTerminates ==
    /\ pc # "panic"
    /\ pc \in {"loop", "save", "done"} => ChunkingAsPlanned
====
